---- MODULE Spec2Model ----
(***************************************************************************)
(* Model of the reversible masking / obfuscation engine of                 *)
(* asset-data-privacy: DataMaskingEngine (data_masking.py),                *)
(* FundNameObfuscator (fund_obfuscator.py) and the pipeline that composes  *)
(* them (main.py).                                                         *)
(*                                                                         *)
(* A text is a sequence of one-character strings.  Offsets are 0-based and *)
(* spans half-open, as in Python: the span <<s, e>> of text t covers       *)
(* t[s+1] .. t[e] in TLA+ indexing.                                        *)
(***************************************************************************)
EXTENDS Integers, Sequences, FiniteSets, TLC

VARIABLES
    mask_counter,         \* DataMaskingEngine.mask_counter
    masked_values,        \* DataMaskingEngine.masked_values (insertion-ordered dict)
    master_fund_names,    \* FundNameObfuscator.master_fund_names (list)
    placeholder_mapping,  \* FundNameObfuscator.placeholder_mapping (dict name -> placeholder)
    obfuscated_funds,     \* FundNameObfuscator.obfuscated_funds (insertion-ordered dict)
    obfuscation_counter,  \* FundNameObfuscator.obfuscation_counter
    masking_file,         \* the file save_masking_info / load_masking_info use
    fund_names_file,      \* the file save_fund_names / load_fund_names use
    obfuscation_file,     \* the file save_obfuscation_info / load_obfuscation_info use
    doc,                  \* the caller's document: input text, current text, returned mappings
    last_call,            \* the name of the last method called
    raised,               \* the exception the last call propagated to its caller, or "none"
    created,              \* the records the masking session created, in creation order
    loaded_ids,           \* the identifiers the last load_masking_info read from the file
    uploads,              \* app.py: the /upload requests in progress, one thread each
    writer,               \* app.py: the /api/fund_names request in progress
    mask_log,             \* the results of the mask calls so far, oldest first
    dropped               \* the records whose placeholder the external service dropped

vars == <<mask_counter, masked_values, master_fund_names, placeholder_mapping,
          obfuscated_funds, obfuscation_counter, masking_file, fund_names_file,
          obfuscation_file, doc, last_call, raised, created, loaded_ids,
          uploads, writer, mask_log, dropped>>

\* ------------------------------------------------------------------ bounds

\* Longest input text, in tokens.
MaxTokens == 2
\* A masking session stops taking new documents once its counter reaches this.
MaxCounter == 2
\* The obfuscator stops taking new documents once its counter reaches this.
MaxObfuscations == 1
\* Longest log of mask calls and new sessions that is followed.
MaxLog == 4

\* The registry stops taking new names once it holds this many.
MaxRegistry == 1000

\* ------------------------------------------------------------- characters

Digits == {"0", "1", "2", "3", "4", "5", "6", "7", "8", "9"}

UpperLetters == <<"A", "B", "C", "D", "E", "F", "G", "H", "I", "J", "K", "L", "M",
                  "N", "O", "P", "Q", "R", "S", "T", "U", "V", "W", "X", "Y", "Z">>

LowerLetters == <<"a", "b", "c", "d", "e", "f", "g", "h", "i", "j", "k", "l", "m",
                  "n", "o", "p", "q", "r", "s", "t", "u", "v", "w", "x", "y", "z">>

Range(s) == {s[i] : i \in DOMAIN s}

IsDigit(c) == c \in Digits

\* \w of Python's re on ASCII text: letters, digits and the underscore.
WordChars == Digits \cup Range(UpperLetters) \cup Range(LowerLetters) \cup {"_"}

IsWord(c) == c \in WordChars

UpperChars == Range(UpperLetters)

\* Case folding of re.IGNORECASE on ASCII text.
LowerMap ==
    [c \in UpperChars |->
        LowerLetters[CHOOSE k \in DOMAIN UpperLetters : UpperLetters[k] = c]]

Lower(c) == IF c \in UpperChars THEN LowerMap[c] ELSE c

LowerText(t) == [i \in DOMAIN t |-> Lower(t[i])]

\* Python slices t[s:e] and t[s:], 0-based.
Slice(t, s, e) == SubSeq(t, s + 1, e)

SliceFrom(t, s) == SubSeq(t, s + 1, Len(t))

\* A pattern without \b: every offset will do.
AnyOffset(t, i) == TRUE

\* \b at offset i of t: exactly one of the characters around i is a word character.
WordBoundary(t, i) ==
    LET before == i > 0 /\ IsWord(t[i])
        after == i < Len(t) /\ IsWord(t[i + 1])
    IN before # after

\* Number of consecutive digits of t starting at offset i.
RECURSIVE DigitRun(_, _)
DigitRun(t, i) ==
    IF i < Len(t) /\ IsDigit(t[i + 1]) THEN 1 + DigitRun(t, i + 1) ELSE 0

\* ------------------------------------------------------------- formatting

DigitChars == <<"0", "1", "2", "3", "4", "5", "6", "7", "8", "9">>

\* str(n) for n >= 0.
RECURSIVE Decimal(_)
Decimal(n) ==
    IF n < 10 THEN <<DigitChars[n + 1]>>
    ELSE Decimal(n \div 10) \o <<DigitChars[(n % 10) + 1]>>

\* Python's f"{n:0{w}d}": zero-padded to at least w characters, never truncated.
RECURSIVE ZeroPad(_, _)
ZeroPad(s, w) == IF Len(s) >= w THEN s ELSE ZeroPad(<<"0">> \o s, w)

\* Width of the sequence number in NUM_ / MASK_ / FUND_ identifiers.
IdWidth == 6

\* Width of the index in a registry placeholder.
PlaceholderWidth == 3

\* A placeholder whose digits stand as a word of their own.
BarePlaceholder(n) == <<"#">> \o ZeroPad(Decimal(n), PlaceholderWidth)

\* f"NUM_{mask_counter:06d}"
MaskedValue(n) == <<"N", "U", "M", "_">> \o ZeroPad(Decimal(n), IdWidth)

\* f"MASK_{mask_counter:06d}"
MaskId(n) == <<"M", "A", "S", "K", "_">> \o ZeroPad(Decimal(n), IdWidth)

\* f"FUND_{obfuscation_counter:06d}"
ObfuscationId(n) == <<"F", "U", "N", "D", "_">> \o ZeroPad(Decimal(n), IdWidth)

\* f"Fund{i+1:03d}" for the name at 0-based index i, called with k = i + 1.
Placeholder(k) == <<"F", "u", "n", "d">> \o ZeroPad(Decimal(k), PlaceholderWidth)

\* ------------------------------------------------- insertion-ordered dicts
\* A Python dict is a sequence of records with a field "id" (the key), in
\* insertion order.  d[k] = v overwrites in place when k is present.

HasKey(d, k) == \E i \in DOMAIN d : d[i].id = k

DictSet(d, rec) ==
    IF HasKey(d, rec.id)
    THEN [i \in DOMAIN d |-> IF d[i].id = rec.id THEN rec ELSE d[i]]
    ELSE Append(d, rec)

\* The list as it is, leftmost first.
KeepOrder(s) == s

Reverse(s) == [i \in DOMAIN s |-> s[Len(s) + 1 - i]]

\* ----------------------------------------------------------- str.replace

\* t starts with s at offset i.
StartsAt(t, s, i) == i + Len(s) <= Len(t) /\ Slice(t, i, i + Len(s)) = s

\* Python's t.replace(old, new) for a non-empty old: every non-overlapping
\* occurrence, found left to right, is replaced.
RECURSIVE ReplaceFrom(_, _, _, _)
ReplaceFrom(t, old, new, i) ==
    IF i >= Len(t) THEN <<>>
    ELSE IF StartsAt(t, old, i) THEN new \o ReplaceFrom(t, old, new, i + Len(old))
    ELSE <<t[i + 1]>> \o ReplaceFrom(t, old, new, i + 1)

Replace(t, old, new) == ReplaceFrom(t, old, new, 0)

\* ------------------------------------------- the numeric pattern (line 27)
\*   \$\d{1,3}(?:,\d{3})*(?:\.\d+)?
\* | \b\d{1,3}(?:,\d{3})*(?:\.\d+)?\b
\* | \b\d+%
\* Each alternative gives the offset its match ends at, or -1.  Python's re
\* is a backtracking matcher: greedy quantifiers take the most first and give
\* back one repetition at a time, and the first alternative that matches wins.

Min(a, b) == IF a < b THEN a ELSE b

\* Number of consecutive ",ddd" groups starting at offset p: (?:,\d{3})* at its greediest.
RECURSIVE MaxGroups(_, _)
MaxGroups(t, p) ==
    IF p < Len(t) /\ t[p + 1] = "," /\ DigitRun(t, p + 1) >= 3
    THEN 1 + MaxGroups(t, p + 4)
    ELSE 0

\* The offsets (?:\.\d+)? can end at from offset q, in the order the matcher
\* tries them: with the fraction (longest digit run first), then without it.
RECURSIVE FractionEnds(_, _, _)
FractionEnds(t, q, r) ==
    IF r = 0 THEN <<q>> ELSE <<q + 1 + r>> \o FractionEnds(t, q, r - 1)

DecimalEnds(t, q) ==
    IF q < Len(t) /\ t[q + 1] = "."
    THEN FractionEnds(t, q, DigitRun(t, q + 1))
    ELSE <<q>>

\* Ends after g, g-1, .. 0 thousands groups from offset p.
RECURSIVE GroupEnds(_, _, _)
GroupEnds(t, p, g) ==
    DecimalEnds(t, p + 4 * g) \o (IF g = 0 THEN <<>> ELSE GroupEnds(t, p, g - 1))

\* Ends after d, d-1, .. 1 leading digits from offset i.
RECURSIVE NumberEnds(_, _, _)
NumberEnds(t, i, d) ==
    IF d = 0 THEN <<>>
    ELSE GroupEnds(t, i + d, MaxGroups(t, i + d)) \o NumberEnds(t, i, d - 1)

\* \d{1,3}(?:,\d{3})*(?:\.\d+)? from offset i: every end, in the matcher's order.
NumberCandidates(t, i) == NumberEnds(t, i, Min(3, DigitRun(t, i)))

\* Alternative 1: a "$", then the number; nothing follows, so the greediest end is taken.
CurrencyMatch(t, i) ==
    IF i < Len(t) /\ t[i + 1] = "$" /\ DigitRun(t, i + 1) >= 1
    THEN NumberCandidates(t, i + 1)[1]
    ELSE -1

\* Alternative 2: \b, the number, \b: the first end in the matcher's order at a word boundary.
BareNumberMatch(t, i) ==
    LET c == NumberCandidates(t, i)
        ok == {k \in DOMAIN c : WordBoundary(t, c[k])}
    IN IF WordBoundary(t, i) /\ ok # {}
       THEN c[CHOOSE k \in ok : \A j \in ok : k <= j]
       ELSE -1

\* Alternative 3: \b, \d+ and "%".  A shorter \d+ is followed by a digit, never by "%".
PercentMatch(t, i) ==
    LET r == DigitRun(t, i)
    IN IF WordBoundary(t, i) /\ r >= 1 /\ i + r < Len(t) /\ t[i + r + 1] = "%"
       THEN i + r + 1
       ELSE -1

\* The pattern at offset i: the end of the match, or -1.
NumericMatchAt(t, i) ==
    IF CurrencyMatch(t, i) # -1 THEN CurrencyMatch(t, i)
    ELSE IF BareNumberMatch(t, i) # -1 THEN BareNumberMatch(t, i)
    ELSE PercentMatch(t, i)

\* A scan that resumes one character after the start of a match, not at its end.
RECURSIVE OverlappingMatchesFrom(_, _)
OverlappingMatchesFrom(t, i) ==
    IF i >= Len(t) THEN <<>>
    ELSE IF NumericMatchAt(t, i) # -1
         THEN <<<<i, NumericMatchAt(t, i)>>>> \o OverlappingMatchesFrom(t, i + 1)
         ELSE OverlappingMatchesFrom(t, i + 1)

\* list(re.finditer(pattern, text)): leftmost matches, scanning resumes after each.
RECURSIVE NumericMatchesFrom(_, _)
NumericMatchesFrom(t, i) ==
    IF i >= Len(t) THEN <<>>
    ELSE IF NumericMatchAt(t, i) # -1
         THEN <<<<i, NumericMatchAt(t, i)>>>> \o NumericMatchesFrom(t, NumericMatchAt(t, i))
         ELSE NumericMatchesFrom(t, i + 1)

NumericMatches(t) == NumericMatchesFrom(t, 0)

\* ------------------------------------------------------ DataMaskingEngine

\* A loop that forgets the increment.
StuckMaskCounter(c) == c

\* self.mask_counter += 1
NextMaskCounter(c) == c + 1

\* A counter that starts again at 0 in every call.
CounterRestarted(c, k) == k

\* The counter after k iterations of the loop.
RECURSIVE CounterAfter(_, _)
CounterAfter(c, k) == IF k = 0 THEN c ELSE NextMaskCounter(CounterAfter(c, k - 1))

\* A record that keeps the digits of the match, without its first character.
MaskRecordStripped(t, m, c) ==
    [id |-> MaskId(c), original |-> Slice(t, m[1] + 1, m[2]),
     masked |-> MaskedValue(c), position |-> m]

\* The record one iteration of the loop builds for the match m, with the counter at c.
MaskRecord(t, m, c) ==
    [id |-> MaskId(c), original |-> Slice(t, m[1], m[2]),
     masked |-> MaskedValue(c), position |-> m]

\* The records of the loop over matches, in creation order.
MaskRecords(t, c) ==
    LET ms == NumericMatches(t)
    IN [k \in DOMAIN ms |-> MaskRecord(t, ms[k], CounterAfter(c, k - 1))]

\* A mapping that holds the records of the last call only.
DictOfLastCall(d, recs) == recs

\* d[rec.id] = rec for every rec of recs, in order.
RECURSIVE DictSetAll(_, _)
DictSetAll(d, recs) ==
    IF recs = <<>> THEN d ELSE DictSetAll(DictSet(d, Head(recs)), Tail(recs))

\* for start, end, masked_value in reversed(replacements): splice, rightmost first.
\* reps is already reversed.
RECURSIVE ApplyReplacements(_, _)
ApplyReplacements(t, reps) ==
    IF reps = <<>> THEN t
    ELSE LET r == Head(reps)
         IN ApplyReplacements(Slice(t, 0, r.position[1]) \o r.masked \o SliceFrom(t, r.position[2]),
                              Tail(reps))

\* mask_numerical_values(text) on a session with counter c and mapping mv:
\* the returned text and masking_info, and the session afterwards.
MaskNumericalValues(t, c, mv) ==
    LET recs == MaskRecords(t, c)
        info == DictSetAll(<<>>, recs)
    IN [text |-> ApplyReplacements(t, Reverse(recs)),
        info |-> [masked_values |-> info, total_masked |-> Len(info)],
        mask_counter |-> CounterAfter(c, Len(recs)),
        masked_values |-> DictSetAll(mv, recs),
        records |-> recs]

\* decrypt_numerical_values(masked_text, masking_info): the records in reverse
\* key order, each placeholder replaced everywhere by its original.
RECURSIVE ReplaceUntilMissing(_, _)
\* A reversal that gives up at the first record whose placeholder is not in the text.
ReplaceUntilMissing(t, recs) ==
    IF recs = <<>> THEN t
    ELSE IF \A i \in 0..Len(t) : ~StartsAt(t, Head(recs).masked, i) THEN t
    ELSE ReplaceUntilMissing(Replace(t, Head(recs).masked, Head(recs).original), Tail(recs))

RECURSIVE ReplaceEach(_, _)
ReplaceEach(t, recs) ==
    IF recs = <<>> THEN t
    ELSE ReplaceEach(Replace(t, Head(recs).masked, Head(recs).original), Tail(recs))

\* A reversal that reads the records of the engine it is called on.
DecryptWithSession(t, info) == ReplaceEach(t, Reverse(masked_values))

DecryptNumericalValues(t, info) == ReplaceEach(t, Reverse(info.masked_values))

\* ----------------------------------------------------- FundNameObfuscator

\* A Python str as a text.
MasterFund1 == <<"M", "a", "s", "t", "e", "r", "F", "u", "n", "d", "1">>
MasterFund2 == <<"M", "a", "s", "t", "e", "r", "F", "u", "n", "d", "2">>
MasterFund3 == <<"M", "a", "s", "t", "e", "r", "F", "u", "n", "d", "3">>
MasterFund4 == <<"M", "a", "s", "t", "e", "r", "F", "u", "n", "d", "4">>
MasterFund5 == <<"M", "a", "s", "t", "e", "r", "F", "u", "n", "d", "5">>
AlphaFund == <<"A", "l", "p", "h", "a", "F", "u", "n", "d">>
BetaFund == <<"B", "e", "t", "a", "F", "u", "n", "d">>
GammaFund == <<"G", "a", "m", "m", "a", "F", "u", "n", "d">>
DeltaFund == <<"D", "e", "l", "t", "a", "F", "u", "n", "d">>
OmegaFund == <<"O", "m", "e", "g", "a", "F", "u", "n", "d">>
StrategicFund == <<"S", "t", "r", "a", "t", "e", "g", "i", "c", "F", "u", "n", "d">>
GrowthFund == <<"G", "r", "o", "w", "t", "h", "F", "u", "n", "d">>
ValueFund == <<"V", "a", "l", "u", "e", "F", "u", "n", "d">>
IncomeFund == <<"I", "n", "c", "o", "m", "e", "F", "u", "n", "d">>
BalancedFund == <<"B", "a", "l", "a", "n", "c", "e", "d", "F", "u", "n", "d">>
GlobalFund == <<"G", "l", "o", "b", "a", "l", "F", "u", "n", "d">>
RegionalFund == <<"R", "e", "g", "i", "o", "n", "a", "l", "F", "u", "n", "d">>
SectorFund == <<"S", "e", "c", "t", "o", "r", "F", "u", "n", "d">>
IndexFund == <<"I", "n", "d", "e", "x", "F", "u", "n", "d">>
HedgeFund == <<"H", "e", "d", "g", "e", "F", "u", "n", "d">>

\* self.default_fund_names
default_fund_names ==
    <<MasterFund1, MasterFund2, MasterFund3, MasterFund4, MasterFund5,
      AlphaFund, BetaFund, GammaFund, DeltaFund, OmegaFund,
      StrategicFund, GrowthFund, ValueFund, IncomeFund, BalancedFund,
      GlobalFund, RegionalFund, SectorFund, IndexFund, HedgeFund>>

\* _generate_placeholders: placeholder_mapping[name] = f"Fund{i+1:03d}" for every
\* name of the list, in list order; keys that are not in the list are left as they are.
GeneratePlaceholders(names, mapping) ==
    [n \in DOMAIN mapping \cup Range(names) |->
        IF n \in Range(names)
        THEN Placeholder(CHOOSE i \in DOMAIN names :
                            names[i] = n /\ \A j \in DOMAIN names : names[j] = n => j <= i)
        ELSE mapping[n]]

\* The empty dict.
EmptyDict == [n \in {} |-> <<>>]

\* list.remove(x): the list without the first occurrence of x.
ListRemove(l, x) ==
    LET i == CHOOSE k \in DOMAIN l : l[k] = x /\ \A j \in DOMAIN l : l[j] = x => k <= j
    IN SubSeq(l, 1, i - 1) \o SubSeq(l, i + 1, Len(l))

\* del d[k]
DictDel(d, k) == [n \in DOMAIN d \ {k} |-> d[n]]

\* add_fund_name: the registry <<names, mapping>> afterwards.
AddFundNameTo(names, mapping, name) ==
    IF name \in Range(names) THEN <<names, mapping>>
    ELSE LET appended == Append(names, name)
         IN <<appended,
              [n \in DOMAIN mapping \cup {name} |->
                  IF n = name THEN Placeholder(Len(appended)) ELSE mapping[n]]>>

\* A removal that deletes the entry and regenerates nothing.
RemoveWithoutRegeneration(names, mapping, name) ==
    IF name \notin Range(names) THEN <<names, mapping>>
    ELSE <<ListRemove(names, name), DictDel(mapping, name)>>

\* remove_fund_name: the registry <<names, mapping>> afterwards.
RemoveFundNameFrom(names, mapping, name) ==
    IF name \notin Range(names) THEN <<names, mapping>>
    ELSE LET rest == ListRemove(names, name)
         IN <<rest, GeneratePlaceholders(rest, DictDel(mapping, name))>>

\* The alternatives of r'\b(' + '|'.join(re.escape(name) ...) + r')\b': the
\* names in list order; the join of an empty list is the empty alternative.
Alternatives(names) == IF names = <<>> THEN << <<>> >> ELSE names

\* The pattern is compiled with re.IGNORECASE: the text and the alternatives
\* are compared case-folded.  lt is LowerText(t), alts the folded alternatives.
\* The fund pattern at offset i: the end of the match, or -1.  The first
\* alternative, in list order, that matches and ends at a word boundary wins.
FundMatchAt(t, lt, i, alts) ==
    LET ok == {k \in DOMAIN alts :
                 StartsAt(lt, alts[k], i) /\ WordBoundary(t, i + Len(alts[k]))}
    IN IF WordBoundary(t, i) /\ ok # {}
       THEN i + Len(alts[CHOOSE k \in ok : \A j \in ok : k <= j])
       ELSE -1

\* re.finditer(fund_pattern, text, re.IGNORECASE): scanning resumes at the end of
\* a match, one character further after an empty one.
RECURSIVE FundMatchesFrom(_, _, _, _)
FundMatchesFrom(t, lt, i, alts) ==
    IF i > Len(t) THEN <<>>
    ELSE LET e == FundMatchAt(t, lt, i, alts)
         IN IF e = -1 THEN FundMatchesFrom(t, lt, i + 1, alts)
            ELSE <<<<i, e>>>> \o FundMatchesFrom(t, lt, IF e = i THEN i + 1 ELSE e, alts)

FundMatches(t, names) ==
    LET alts == Alternatives(names)
    IN FundMatchesFrom(t, LowerText(t), 0, [k \in DOMAIN alts |-> LowerText(alts[k])])

\* re.sub(re.escape(name), placeholder, text, flags=re.IGNORECASE, count=1):
\* the leftmost occurrence of name in text, in any casing, is replaced.
SubFirst(t, name, placeholder) ==
    LET lt == LowerText(t)
        ln == LowerText(name)
        at == {i \in 0..Len(t) : StartsAt(lt, ln, i)}
    IN IF at = {} THEN t
       ELSE LET i == CHOOSE k \in at : \A j \in at : k <= j
            IN Slice(t, 0, i) \o placeholder \o SliceFrom(t, i + Len(name))

\* A lookup that gives every name the placeholder of the first entry.
PlaceholderOfFirstEntry(mapping, original_name) == Placeholder(1)

\* placeholder = self.placeholder_mapping[original_name]
LookupPlaceholder(mapping, original_name) == mapping[original_name]

\* One iteration of the loop of obfuscate_fund_names over the match m of the
\* input text t; st holds the locals and the fields the loop writes.
ObfuscateStep(t, m, mapping, st) ==
    LET original_name == Slice(t, m[1], m[2])
    IN IF original_name \notin DOMAIN mapping
       THEN [st EXCEPT !.raised = "KeyError"]
       ELSE LET rec == [id |-> ObfuscationId(st.obfuscation_counter),
                        original |-> original_name,
                        placeholder |-> LookupPlaceholder(mapping, original_name),
                        position |-> m]
            IN [st EXCEPT !.obfuscated_funds = DictSet(@, rec),
                          !.info = DictSet(@, rec),
                          !.text = SubFirst(@, original_name, rec.placeholder),
                          !.obfuscation_counter = @ + 1]

RECURSIVE ObfuscateLoop(_, _, _, _)
ObfuscateLoop(t, ms, mapping, st) ==
    IF ms = <<>> \/ st.raised # "none" THEN st
    ELSE ObfuscateLoop(t, Tail(ms), mapping, ObfuscateStep(t, Head(ms), mapping, st))

\* obfuscate_fund_names(text) on an obfuscator with the given registry, counter c
\* and mapping funds: the returned text and obfuscated_funds (when nothing was
\* raised), and the obfuscator's fields afterwards.
ObfuscateFundNames(t, names, mapping, c, funds) ==
    ObfuscateLoop(t, FundMatches(t, names), mapping,
                  [text |-> t, info |-> <<>>, obfuscated_funds |-> funds,
                   obfuscation_counter |-> c, raised |-> "none"])

\* deobfuscate_fund_names(obfuscated_text, obfuscation_info): for every record,
\* in dict order, its placeholder is replaced everywhere by its original.
RECURSIVE DeobfuscateEach(_, _)
DeobfuscateEach(t, recs) ==
    IF recs = <<>> THEN t
    ELSE DeobfuscateEach(Replace(t, Head(recs).placeholder, Head(recs).original), Tail(recs))

DeobfuscateFundNames(t, info) == DeobfuscateEach(t, info.obfuscated_funds)

\* ------------------------------------------------------------ input texts

\* The pieces input texts are made of.
Five == <<"5">>
SpFive == <<" ", "5">>
Thousand == <<"$", "1", ",", "0", "0", "0">>
Percent == <<"1", "2", "3", "4", "%">>
Num0 == <<"N", "U", "M", "_", "0", "0", "0", "0", "0", "0">>
SpAlpha == <<" ">> \o AlphaFund
LowerAlpha == <<"a", "l", "p", "h", "a", "f", "u", "n", "d">>
SpLowerAlpha == <<" ">> \o LowerAlpha
XAlpha == <<"x">> \o LowerAlpha
Fund006 == <<"F", "u", "n", "d", "0", "0", "6">>
SpHedge == <<" ">> \o HedgeFund
NewFund == <<"N", "e", "w", "F", "u", "n", "d">>

RECURSIVE Join(_)
Join(ts) == IF ts = <<>> THEN <<>> ELSE Head(ts) \o Join(Tail(ts))

\* Every text of at most MaxTokens tokens.
TextsOf(tokens) == {Join(ts) : ts \in UNION {[1..n -> tokens] : n \in 0..MaxTokens}}

\* Texts given to the masking engine.
MaskTexts == TextsOf({Five, SpFive, Thousand, Percent, Num0})

\* Texts given to a masking engine whose mapping is saved and loaded.
StoreTexts == TextsOf({SpFive})

\* Texts given to the obfuscator.
FundTexts == TextsOf({SpAlpha, SpLowerAlpha, XAlpha, Fund006, SpHedge})

\* Texts given to the pipeline.
PipelineTexts == TextsOf({SpFive, Num0, SpAlpha, SpLowerAlpha, Fund006})

\* Names given to add_fund_name and remove_fund_name while documents are obfuscated.
AddedNames == {NewFund}

RemovedNames == {AlphaFund}

\* Names given to add_fund_name and remove_fund_name on the registry alone.
RegistryNames == {NewFund, AlphaFund, MasterFund1}

\* Documents uploaded while the registry is changed.
Fund3Fund4 == <<" ">> \o MasterFund3 \o <<" ">> \o MasterFund4

RaceTexts == {SpFive \o SpAlpha, Fund3Fund4, <<" ">> \o NewFund}

\* Names posted to and deleted from /api/fund_names meanwhile.
RaceAdded == {NewFund}

RaceRemoved == {MasterFund1, AlphaFund}

\* Numbers next to each other, and longer and shorter than a placeholder.
Million1 == <<"$", "1", ",", "0", "0", "0", ",", "0", "0", "0">>
Million2 == <<"$", "2", ",", "0", "0", "0", ",", "0", "0", "0">>
TwoMillions == Million1 \o <<",", " ">> \o Million2
MillionCents == Million1 \o <<".", "5", "5">>
Comma == <<",">>

\* Documents masked for their spans.
SpanTexts == TextsOf({TwoMillions, MillionCents, Five, Comma, Percent, Num0})

\* A registered name inside a longer word: after a letter, before a letter,
\* before a digit, after an underscore.
XUpperAlpha == <<"x">> \o AlphaFund
AlphaX == AlphaFund \o <<"x">>
Alpha2 == AlphaFund \o <<"2">>
UnderAlpha == <<"_">> \o AlphaFund

\* Documents obfuscated for their word boundaries.
WordTexts == TextsOf({XAlpha, XUpperAlpha, AlphaX, Alpha2, UnderAlpha, SpAlpha, SpHedge})

\* Documents masked in one session after the other.
SessionTexts == TextsOf({SpFive, Thousand})

\* Documents whose masked or obfuscated text goes to the external service.
DropTexts == TextsOf({SpFive, Thousand, Percent})

DropFundTexts == TextsOf({SpAlpha, SpHedge})

\* Documents uploaded concurrently.
UploadTexts == {SpFive, SpFive \o SpFive, SpFive \o SpAlpha}

\* A registered name followed by more: by a digit, and by a space and a word.
AlphaII == AlphaFund \o <<" ", "I", "I">>

\* Names added to and removed from a registry in which one name is the
\* beginning of another.
PrefixNames == {AlphaFund, Alpha2, AlphaII}

\* Documents obfuscated with such a registry.
PrefixTexts == TextsOf({SpAlpha, <<" ">> \o Alpha2, <<" ">> \o AlphaII})

\* The name given to add_fund_name on a registry of k - 1 names.
ExtraFund(k) == <<"E", "x", "t", "r", "a">> \o Decimal(k) \o <<"F", "u", "n", "d">>

\* Documents masked while the registry grows.
GrowTexts == TextsOf({SpFive})

\* Documents obfuscated for the order of their reversal.
OrderTexts == TextsOf({SpAlpha, SpHedge})

\* Texts posted to /decrypt with the mapping of an obfuscated document.
Digits020 == <<"0", "2", "0">>

PostedTexts == TextsOf({Fund006, Digits020, <<" ">>})

\* Documents masked for the repetition of their reversal.
Zero == <<"0">>

RepeatTexts == TextsOf({Zero, SpFive})

\* Texts posted to /decrypt with the mapping of a masked document: whole
\* placeholders, and the beginning of one.
Num00000 == <<"N", "U", "M", "_", "0", "0", "0", "0", "0">>

PostedMaskedTexts == TextsOf({Num0, Num00000, SpFive})

\* A date, a year on its own, and what stands between the parts of a date.
Date == <<"0", "3", "/", "1", "5", "/", "2", "0", "2", "0">>
SpYear == <<" ", "2", "0", "2", "0">>
Slash == <<"/">>

\* Documents with dates.
DateTexts == TextsOf({Date, SpYear, SpFive, Slash})

\* Documents with and without a number, the empty one among them.
NoOpTexts == TextsOf({SpFive, Slash, SpYear, Comma})

\* Documents obfuscated while the registry is emptied.
Space == <<" ">>

EmptyingTexts == TextsOf({SpAlpha, SpHedge, Space})

\* Documents obfuscated and reversed on one obfuscator or another.
InstanceFundTexts == TextsOf({SpAlpha})

\* Documents obfuscated while records are counted: a name as registered, and
\* in another casing.
CountedFundTexts == TextsOf({SpAlpha, SpLowerAlpha})

\* The caller holds no document.  "mutated" tells whether the registry was
\* changed after the document was obfuscated.
NoDoc == [stage |-> "none", original |-> <<>>, text |-> <<>>,
          masking_info |-> [masked_values |-> <<>>, total_masked |-> 0],
          obfuscation_info |-> [obfuscated_funds |-> <<>>, total_obfuscated |-> 0],
          mutated |-> FALSE]

\* A file that open() does not find ("missing") or json.load() cannot parse
\* ("invalid"); a file written by a save has kind "json" and the saved data.
NoFile(kind) == [kind |-> kind, data |-> <<>>]

JsonFile(data) == [kind |-> "json", data |-> data]

\* The files a load can be pointed at: none, one that is not JSON, the saved one.
FilesAt(saved) == {NoFile("missing"), NoFile("invalid"), saved}

\* A call of the method name, on the file of that kind ("-" when it takes none).
Call(name, kind) == [name |-> name, file |-> kind]

\* ------------------------------------------------------ the web service
\* app.py serves every request in a thread of its own (Flask's app.run), and
\* every thread works on the module-level data_masking_engine and
\* fund_obfuscator (app.py 31-34).

\* The threads serving /upload.
Uploads == {1, 2}

\* An /upload thread that serves no request: pc is the line of the source the
\* thread executes next, the other fields are the locals of process_document,
\* mask_numerical_values and obfuscate_fund_names.
IdleUpload ==
    [pc |-> "idle", text |-> <<>>, matches |-> <<>>, masked_value |-> <<>>,
     mask_id |-> <<>>, loaded |-> 0, replacements |-> <<>>, info |-> <<>>,
     masked_text |-> <<>>, fund_matches |-> <<>>, placeholder |-> <<>>,
     obfuscation_id |-> <<>>, funds |-> <<>>, obfuscated_text |-> <<>>,
     error |-> "none"]

\* A /api/fund_names thread that serves no request.
IdleWriter == [pc |-> "idle", fund_name |-> <<>>, i |-> 0]

\* ----------------------------------------------------------------- Init
\* DataMaskingEngine() and FundNameObfuscator() as constructed (data_masking.py
\* 11-14, fund_obfuscator.py 11-31), no document yet, nothing saved yet.

Init ==
    /\ mask_counter = 0
    /\ masked_values = <<>>
    /\ master_fund_names = default_fund_names
    /\ placeholder_mapping = GeneratePlaceholders(default_fund_names, EmptyDict)
    /\ obfuscated_funds = <<>>
    /\ obfuscation_counter = 0
    /\ masking_file = NoFile("missing")
    /\ fund_names_file = NoFile("missing")
    /\ obfuscation_file = NoFile("missing")
    /\ doc = NoDoc
    /\ last_call = Call("__init__", "-")
    /\ raised = "none"
    /\ created = <<>>
    /\ loaded_ids = {}
    /\ uploads = [u \in Uploads |-> IdleUpload]
    /\ writer = IdleWriter
    /\ mask_log = <<>>
    /\ dropped = {}

\* A fund names file that lists n names: the default ones and more.
NamesListed(n) ==
    [k \in 1..n |-> IF k <= Len(default_fund_names) THEN default_fund_names[k]
                    ELSE ExtraFund(k)]

\* FundNameObfuscator(fund_names_file) on a file that lists n names
\* (fund_obfuscator.py 21-27): the list is loaded, the placeholders generated.
RegistryOfSize(n) == <<NamesListed(n), GeneratePlaceholders(NamesListed(n), EmptyDict)>>

\* The sizes of the registry a run starts from.
RegistrySizes == {Len(default_fund_names), MaxRegistry - 1}

\* A new engine, and a new obfuscator constructed on a fund names file.
InitGrown ==
    /\ mask_counter = 0
    /\ masked_values = <<>>
    /\ \E n \in RegistrySizes : \E r \in {RegistryOfSize(n)} :
          master_fund_names = r[1] /\ placeholder_mapping = r[2]
    /\ obfuscated_funds = <<>>
    /\ obfuscation_counter = 0
    /\ masking_file = NoFile("missing")
    /\ fund_names_file = NoFile("missing")
    /\ obfuscation_file = NoFile("missing")
    /\ doc = NoDoc
    /\ last_call = Call("__init__", "-")
    /\ raised = "none"
    /\ created = <<>>
    /\ loaded_ids = {}
    /\ uploads = [u \in Uploads |-> IdleUpload]
    /\ writer = IdleWriter
    /\ mask_log = <<>>
    /\ dropped = {}

registry_vars == <<master_fund_names, placeholder_mapping, fund_names_file>>

obfuscation_vars == <<obfuscated_funds, obfuscation_counter, obfuscation_file>>

fund_vars == <<registry_vars, obfuscation_vars>>

mask_vars == <<mask_counter, masked_values, masking_file, created, loaded_ids>>

\* The web service's requests.
web_vars == <<uploads, writer>>

\* What only some of the specifications below follow.
aux_vars == <<web_vars, mask_log, dropped>>

\* ------------------------------------------- DataMaskingEngine: actions

\* masked_text, masking_info = engine.mask_numerical_values(text)
MaskText(t) ==
    /\ mask_counter < MaxCounter
    /\ \E r \in {MaskNumericalValues(t, mask_counter, masked_values)} :
          /\ mask_counter' = r.mask_counter
          /\ masked_values' = r.masked_values
          /\ created' = created \o r.records
          /\ doc' = [NoDoc EXCEPT !.stage = "masked", !.original = t,
                                  !.text = r.text, !.masking_info = r.info]
    /\ last_call' = Call("mask_numerical_values", "-")
    /\ raised' = "none"
    /\ UNCHANGED <<masking_file, loaded_ids>>

\* engine.decrypt_numerical_values(masked_text, masking_info) on what mask returned
DecryptText ==
    /\ doc.stage = "masked"
    /\ doc' = [doc EXCEPT !.stage = "decrypted",
                          !.text = DecryptNumericalValues(doc.text, doc.masking_info)]
    /\ last_call' = Call("decrypt_numerical_values", "-")
    /\ raised' = "none"
    /\ UNCHANGED mask_vars

\* save_masking_info: json.dump(get_masking_summary()).  JSON keeps the keys,
\* the strings and the key order; a position tuple is written as a list.
SaveMaskingInfo ==
    /\ masking_file' = JsonFile([total_masked_values |-> Len(masked_values),
                                 masked_values |-> masked_values])
    /\ last_call' = Call("save_masking_info", "json")
    /\ raised' = "none"
    /\ UNCHANGED <<mask_counter, masked_values, created, loaded_ids, doc>>

\* The exception open() / json.load() raise on a file that is absent or not JSON.
LoadError(file) ==
    IF file.kind = "missing" THEN "FileNotFoundError"
    ELSE IF file.kind = "invalid" THEN "JSONDecodeError"
    ELSE "none"

\* What a load with no handler (load_masking_info, load_obfuscation_info)
\* lets reach its caller.
Propagated(error) == error

\* A load that leaves the counter of a new engine where it was.
LoadedCounterNotRestored(mv) == 0

\* A load that sets the counter one past the number of loaded records.
LoadedCounterOnePast(mv) == Len(mv) + 1

\* The counter load_masking_info sets for the loaded mapping.
LoadedCounter(mv) == Len(mv)

\* load_masking_info(filepath): what open() and json.load() raise reaches the
\* caller, before either field is assigned.
LoadMaskingInfo(file) ==
    /\ last_call' = Call("load_masking_info", file.kind)
    /\ raised' = Propagated(LoadError(file))
    /\ IF LoadError(file) # "none"
       THEN UNCHANGED <<mask_counter, masked_values, created, loaded_ids>>
       ELSE /\ masked_values' = file.data.masked_values
            /\ mask_counter' = LoadedCounter(file.data.masked_values)
            /\ created' = <<>>
            /\ loaded_ids' = {file.data.masked_values[i].id :
                                 i \in DOMAIN file.data.masked_values}
    /\ UNCHANGED <<masking_file, doc>>

\* new_masking_engine = DataMaskingEngine()
NewEngine ==
    /\ mask_counter # 0 \/ masked_values # <<>>
    /\ mask_counter' = 0
    /\ masked_values' = <<>>
    /\ created' = <<>>
    /\ loaded_ids' = {}
    /\ last_call' = Call("__init__", "-")
    /\ raised' = "none"
    /\ UNCHANGED <<masking_file, doc>>

\* engine.mask_numerical_values(other_text): the engine masks another
\* document while the caller keeps the text and the mapping of the first one.
MaskAnother(t) ==
    /\ doc.stage \in {"masked", "obfuscated"}
    /\ mask_counter < MaxCounter
    /\ \E r \in {MaskNumericalValues(t, mask_counter, masked_values)} :
          /\ mask_counter' = r.mask_counter
          /\ masked_values' = r.masked_values
          /\ created' = created \o r.records
    /\ last_call' = Call("mask_numerical_values", "-")
    /\ raised' = "none"
    /\ UNCHANGED <<masking_file, loaded_ids, doc>>

\* ------------------------------------------ FundNameObfuscator: actions

\* obfuscated_text, obfuscation_info = obfuscator.obfuscate_fund_names(text).
\* The returned dict also holds self.master_fund_names and
\* self.placeholder_mapping themselves (not copies); deobfuscation reads
\* neither.  A KeyError leaves the fields as the loop wrote them and returns
\* nothing.
ObfuscateText(t) ==
    /\ obfuscation_counter < MaxObfuscations
    /\ \E r \in {ObfuscateFundNames(t, master_fund_names, placeholder_mapping,
                                    obfuscation_counter, obfuscated_funds)} :
          /\ obfuscated_funds' = r.obfuscated_funds
          /\ obfuscation_counter' = r.obfuscation_counter
          /\ raised' = r.raised
          /\ doc' = IF r.raised = "none"
                    THEN [NoDoc EXCEPT !.stage = "obfuscated", !.original = t, !.text = r.text,
                                       !.obfuscation_info =
                                           [obfuscated_funds |-> r.info,
                                            total_obfuscated |-> Len(r.info)]]
                    ELSE [NoDoc EXCEPT !.stage = "failed", !.original = t]
    /\ last_call' = Call("obfuscate_fund_names", "-")
    /\ UNCHANGED <<registry_vars, obfuscation_file>>

\* obfuscator.deobfuscate_fund_names(obfuscated_text, obfuscation_info) on what
\* obfuscate returned
DeobfuscateText ==
    /\ doc.stage = "obfuscated"
    /\ doc' = [doc EXCEPT !.stage = "deobfuscated",
                          !.text = DeobfuscateFundNames(doc.text, doc.obfuscation_info)]
    /\ last_call' = Call("deobfuscate_fund_names", "-")
    /\ raised' = "none"
    /\ UNCHANGED fund_vars

\* The caller's document once the registry has changed.
AfterMutation(d) == [d EXCEPT !.mutated = @ \/ d.stage = "obfuscated"]

\* obfuscator.add_fund_name(name)
AddFundName(name) ==
    /\ LET r == AddFundNameTo(master_fund_names, placeholder_mapping, name)
       IN master_fund_names' = r[1] /\ placeholder_mapping' = r[2]
    /\ doc' = AfterMutation(doc)
    /\ last_call' = Call("add_fund_name", "-")
    /\ raised' = "none"
    /\ UNCHANGED <<fund_names_file, obfuscation_vars>>

\* obfuscator.remove_fund_name(name)
RemoveFundName(name) ==
    /\ LET r == RemoveFundNameFrom(master_fund_names, placeholder_mapping, name)
       IN master_fund_names' = r[1] /\ placeholder_mapping' = r[2]
    /\ doc' = AfterMutation(doc)
    /\ last_call' = Call("remove_fund_name", "-")
    /\ raised' = "none"
    /\ UNCHANGED <<fund_names_file, obfuscation_vars>>

\* save_fund_names: json.dump of the list and the dict.
SaveFundNames ==
    /\ fund_names_file' = JsonFile([master_fund_names |-> master_fund_names,
                                    placeholder_mapping |-> placeholder_mapping])
    /\ last_call' = Call("save_fund_names", "json")
    /\ raised' = "none"
    /\ UNCHANGED <<master_fund_names, placeholder_mapping, obfuscation_vars, doc>>

\* A load that resets the registry to the default names when the file cannot be read.
LoadFundNamesOrDefaults(names, mapping, file) ==
    IF LoadError(file) # "none"
    THEN <<default_fund_names, GeneratePlaceholders(default_fund_names, EmptyDict)>>
    ELSE <<file.data.master_fund_names,
           IF file.data.placeholder_mapping = EmptyDict
           THEN GeneratePlaceholders(file.data.master_fund_names, EmptyDict)
           ELSE file.data.placeholder_mapping>>

\* load_fund_names(filepath) on the registry <<names, mapping>>: the registry
\* afterwards.  FileNotFoundError and JSONDecodeError are caught before either
\* field is assigned; the loaded mapping is regenerated only when it is empty.
LoadFundNamesInto(names, mapping, file) ==
    IF LoadError(file) # "none" THEN <<names, mapping>>
    ELSE <<file.data.master_fund_names,
           IF file.data.placeholder_mapping = EmptyDict
           THEN GeneratePlaceholders(file.data.master_fund_names, EmptyDict)
           ELSE file.data.placeholder_mapping>>

\* obfuscator.load_fund_names(filepath)
LoadFundNames(file) ==
    /\ LET r == LoadFundNamesInto(master_fund_names, placeholder_mapping, file)
       IN master_fund_names' = r[1] /\ placeholder_mapping' = r[2]
    /\ doc' = AfterMutation(doc)
    /\ last_call' = Call("load_fund_names", file.kind)
    /\ raised' = "none"
    /\ UNCHANGED <<fund_names_file, obfuscation_vars>>

\* FundNameObfuscator(fund_names_file): the default names, the load, then the
\* placeholders generated afresh for whatever list results.
NewObfuscator(file) ==
    /\ LET r == LoadFundNamesInto(default_fund_names, EmptyDict, file)
       IN /\ master_fund_names' = r[1]
          /\ placeholder_mapping' = GeneratePlaceholders(r[1], EmptyDict)
    /\ obfuscated_funds' = <<>>
    /\ obfuscation_counter' = 0
    /\ doc' = AfterMutation(doc)
    /\ last_call' = Call("__init__", file.kind)
    /\ raised' = "none"
    /\ UNCHANGED <<fund_names_file, obfuscation_file>>

\* save_obfuscation_info: json.dump(get_obfuscation_summary())
SaveObfuscationInfo ==
    /\ obfuscation_file' = JsonFile([total_obfuscated_funds |-> Len(obfuscated_funds),
                                     master_fund_names |-> master_fund_names,
                                     placeholder_mapping |-> placeholder_mapping,
                                     obfuscated_funds |-> obfuscated_funds])
    /\ last_call' = Call("save_obfuscation_info", "json")
    /\ raised' = "none"
    /\ UNCHANGED <<registry_vars, obfuscated_funds, obfuscation_counter, doc>>

\* load_obfuscation_info(filepath): no handler either.
LoadObfuscationInfo(file) ==
    /\ last_call' = Call("load_obfuscation_info", file.kind)
    /\ raised' = Propagated(LoadError(file))
    /\ IF LoadError(file) # "none"
       THEN UNCHANGED <<obfuscated_funds, obfuscation_counter>>
       ELSE /\ obfuscated_funds' = file.data.obfuscated_funds
            /\ obfuscation_counter' = Len(file.data.obfuscated_funds)
    /\ UNCHANGED <<registry_vars, obfuscation_file, doc>>

\* ------------------------------------------------- the pipeline (main.py)

\* AssetDataPrivacy.process_document, steps 2 and 3: the extracted text is
\* masked, the masked text is obfuscated.  Both mappings go to the processing
\* info file, from which decrypt_results reads them back.
ProcessDocument(t) ==
    /\ mask_counter < MaxCounter
    /\ obfuscation_counter < MaxObfuscations
    /\ \E m \in {MaskNumericalValues(t, mask_counter, masked_values)} :
       \E o \in {ObfuscateFundNames(m.text, master_fund_names, placeholder_mapping,
                                    obfuscation_counter, obfuscated_funds)} :
          /\ mask_counter' = m.mask_counter
          /\ masked_values' = m.masked_values
          /\ created' = created \o m.records
          /\ obfuscated_funds' = o.obfuscated_funds
          /\ obfuscation_counter' = o.obfuscation_counter
          /\ raised' = o.raised
          /\ doc' = IF o.raised = "none"
                    THEN [NoDoc EXCEPT !.stage = "processed", !.original = t, !.text = o.text,
                                       !.masking_info = m.info,
                                       !.obfuscation_info =
                                           [obfuscated_funds |-> o.info,
                                            total_obfuscated |-> Len(o.info)]]
                    ELSE [NoDoc EXCEPT !.stage = "failed", !.original = t]
    /\ last_call' = Call("process_document", "-")
    /\ UNCHANGED <<masking_file, loaded_ids, registry_vars, obfuscation_file>>

\* AssetDataPrivacy.decrypt_results: fund names are deobfuscated first, then
\* the numbers decrypted.
DecryptResults ==
    /\ doc.stage = "processed"
    /\ doc' = [doc EXCEPT
                 !.stage = "restored",
                 !.text = DecryptNumericalValues(
                              DeobfuscateFundNames(doc.text, doc.obfuscation_info),
                              doc.masking_info)]
    /\ last_call' = Call("decrypt_results", "-")
    /\ raised' = "none"
    /\ UNCHANGED <<mask_vars, fund_vars>>

\* engine.mask_numerical_values(masked_text): the text a mask call returned
\* is masked again.
RemaskText ==
    /\ doc.stage = "masked"
    /\ \E t \in {doc.text} : MaskText(t)

\* ------------------------------------------------- sessions, one by one
\* mask_log keeps what every mask call was given and returned, and where a
\* new DataMaskingEngine was constructed.

\* The number of the session the engine is in: the engines constructed so far.
CurrentSession == IF mask_log = <<>> THEN 0 ELSE mask_log[Len(mask_log)].session

\* masked_text, masking_info = engine.mask_numerical_values(text), logged;
\* "fresh" tells that the engine was as constructed when it was called.
LoggedMask(t) ==
    /\ Len(mask_log) < MaxLog
    /\ MaskText(t)
    /\ mask_log' = Append(mask_log,
                        [kind |-> "mask", session |-> CurrentSession,
                         fresh |-> mask_counter = 0 /\ masked_values = <<>>,
                         original |-> t, text |-> doc'.text,
                         info |-> doc'.masking_info])
    /\ UNCHANGED <<fund_vars, web_vars, dropped>>

\* engine = DataMaskingEngine(), logged: the next session starts.
LoggedNewEngine ==
    /\ Len(mask_log) < MaxLog
    /\ NewEngine
    /\ mask_log' = Append(mask_log,
                        [kind |-> "new", session |-> CurrentSession + 1, fresh |-> TRUE,
                         original |-> <<>>, text |-> <<>>,
                         info |-> NoDoc.masking_info])
    /\ UNCHANGED <<fund_vars, web_vars, dropped>>

\* --------------------------------------------------- the external service
\* The masked text goes to the external service (app.py, openai_process) and
\* what it answers is decrypted (app.py, decrypt_results).  The service may
\* leave placeholders out of its answer.

\* t without any occurrence of the texts of S.
RECURSIVE RemoveAll(_, _)
RemoveAll(t, S) ==
    IF S = {} THEN t
    ELSE LET p == CHOOSE x \in S : TRUE
         IN RemoveAll(Replace(t, p, <<>>), S \ {p})

\* The placeholders the caller's mappings record.
RecordedPlaceholders(d) ==
    {d.masking_info.masked_values[i].masked : i \in DOMAIN d.masking_info.masked_values}
    \cup {d.obfuscation_info.obfuscated_funds[i].placeholder :
              i \in DOMAIN d.obfuscation_info.obfuscated_funds}

\* ai_response: the text the caller sent, without the placeholders of S.
ServiceDrops(S) ==
    /\ doc.stage \in {"masked", "obfuscated"}
    /\ dropped = {}
    /\ S # {}
    /\ doc' = [doc EXCEPT !.text = RemoveAll(@, S)]
    /\ dropped' = S
    /\ last_call' = Call("openai_process", "-")
    /\ raised' = "none"
    /\ UNCHANGED <<mask_vars, fund_vars, web_vars, mask_log>>

\* decrypt_results (app.py 126-127): the client posts a text of its own,
\* masked_text, with the processing_info it was given.
PostText(x) ==
    /\ doc.stage \in {"masked", "obfuscated"}
    /\ doc.text # x
    /\ doc' = [doc EXCEPT !.text = x]
    /\ last_call' = Call("get_json", "-")
    /\ raised' = "none"
    /\ UNCHANGED <<mask_vars, fund_vars, aux_vars>>

\* ------------------------------------------- the web service: /upload
\* One action is one step of the thread u: the statements of the source up
\* to the next read or write of a field of the shared engine or obfuscator.

\* What a step of a web thread leaves alone: the files and the caller of the
\* command-line pipeline.
offline_vars == <<masking_file, fund_names_file, obfuscation_file, doc, last_call,
                  raised, created, loaded_ids, mask_log, dropped>>

\* upload_file / process_document(filepath): the text extracted from the PDF.
StartUpload(u, t) ==
    /\ uploads[u].pc = "idle"
    /\ uploads' = [uploads EXCEPT ![u] = [IdleUpload EXCEPT !.pc = "35", !.text = t]]
    /\ UNCHANGED <<mask_vars, fund_vars, writer, offline_vars>>

\* mask_numerical_values, lines 29-38: the matches of the text.
Mask35(u) ==
    /\ uploads[u].pc = "35"
    /\ \E ms \in {NumericMatches(uploads[u].text)} :
          uploads' = [uploads EXCEPT ![u].matches = ms,
                                     ![u].pc = IF ms = <<>> THEN "61" ELSE "42"]
    /\ UNCHANGED <<mask_vars, fund_vars, writer, offline_vars>>

\* line 42: masked_value = f"NUM_{self.mask_counter:06d}"
Mask42(u) ==
    /\ uploads[u].pc = "42"
    /\ uploads' = [uploads EXCEPT ![u].masked_value = MaskedValue(mask_counter),
                                  ![u].pc = "45"]
    /\ UNCHANGED <<mask_vars, fund_vars, writer, offline_vars>>

\* line 45: mask_id = f"MASK_{self.mask_counter:06d}"
Mask45(u) ==
    /\ uploads[u].pc = "45"
    /\ uploads' = [uploads EXCEPT ![u].mask_id = MaskId(mask_counter), ![u].pc = "46"]
    /\ UNCHANGED <<mask_vars, fund_vars, writer, offline_vars>>

\* lines 46-58: the record goes into self.masked_values, into the call's own
\* masking_info and into replacements.
Mask46(u) ==
    /\ uploads[u].pc = "46"
    /\ LET m == Head(uploads[u].matches)
           rec == [id |-> uploads[u].mask_id,
                   original |-> Slice(uploads[u].text, m[1], m[2]),
                   masked |-> uploads[u].masked_value, position |-> m]
       IN /\ masked_values' = DictSet(masked_values, rec)
          /\ uploads' = [uploads EXCEPT ![u].info = DictSet(@, rec),
                                        ![u].replacements = Append(@, rec),
                                        ![u].pc = "59"]
    /\ UNCHANGED <<mask_counter, masking_file, created, loaded_ids, fund_vars, writer,
                   doc, last_call, raised, fund_names_file, obfuscation_file,
                   mask_log, dropped>>

\* line 59, self.mask_counter += 1: the field is read ...
Mask59Load(u) ==
    /\ uploads[u].pc = "59"
    /\ uploads' = [uploads EXCEPT ![u].loaded = mask_counter, ![u].pc = "59store"]
    /\ UNCHANGED <<mask_vars, fund_vars, writer, offline_vars>>

\* ... and the sum is written back; the loop goes to its next match.
Mask59Store(u) ==
    /\ uploads[u].pc = "59store"
    /\ mask_counter' = NextMaskCounter(uploads[u].loaded)
    /\ uploads' = [uploads EXCEPT ![u].matches = Tail(@),
                                  ![u].pc = IF Tail(uploads[u].matches) = <<>>
                                            THEN "61" ELSE "42"]
    /\ UNCHANGED <<masked_values, masking_file, created, loaded_ids, fund_vars, writer,
                   doc, last_call, raised, fund_names_file, obfuscation_file,
                   mask_log, dropped>>

\* lines 61-67: the replacements are spliced in, rightmost first.
Mask61(u) ==
    /\ uploads[u].pc = "61"
    /\ uploads' = [uploads EXCEPT
                      ![u].masked_text =
                          ApplyReplacements(uploads[u].text, Reverse(uploads[u].replacements)),
                      ![u].pc = "83"]
    /\ UNCHANGED <<mask_vars, fund_vars, writer, offline_vars>>

\* obfuscate_fund_names, lines 74-85: the pattern is built from
\* self.master_fund_names as it is now (the join over the list is taken as
\* one step), and matched against the masked text.
Obf83(u) ==
    /\ uploads[u].pc = "83"
    /\ \E ms \in {FundMatches(uploads[u].masked_text, master_fund_names)} :
          uploads' = [uploads EXCEPT ![u].fund_matches = ms,
                                     ![u].obfuscated_text = uploads[u].masked_text,
                                     ![u].pc = IF ms = <<>> THEN "done" ELSE "88"]
    /\ UNCHANGED <<mask_vars, fund_vars, writer, offline_vars>>

\* line 88: placeholder = self.placeholder_mapping[original_name], as the dict
\* is now.  A KeyError ends the request (app.py 119, 76: a 500 response).
Obf88(u) ==
    /\ uploads[u].pc = "88"
    /\ LET m == Head(uploads[u].fund_matches)
           original_name == Slice(uploads[u].masked_text, m[1], m[2])
       IN uploads' =
            IF original_name \in DOMAIN placeholder_mapping
            THEN [uploads EXCEPT
                    ![u].placeholder = LookupPlaceholder(placeholder_mapping, original_name),
                    ![u].pc = "91"]
            ELSE [uploads EXCEPT ![u].error = "KeyError", ![u].pc = "done"]
    /\ UNCHANGED <<mask_vars, fund_vars, writer, offline_vars>>

\* line 91: obfuscation_id = f"FUND_{self.obfuscation_counter:06d}"
Obf91(u) ==
    /\ uploads[u].pc = "91"
    /\ uploads' = [uploads EXCEPT ![u].obfuscation_id = ObfuscationId(obfuscation_counter),
                                  ![u].pc = "92"]
    /\ UNCHANGED <<mask_vars, fund_vars, writer, offline_vars>>

\* lines 92-111: the record goes into self.obfuscated_funds and into the
\* call's own obfuscation_info; re.sub replaces in the call's own text.
Obf92(u) ==
    /\ uploads[u].pc = "92"
    /\ LET m == Head(uploads[u].fund_matches)
           rec == [id |-> uploads[u].obfuscation_id,
                   original |-> Slice(uploads[u].masked_text, m[1], m[2]),
                   placeholder |-> uploads[u].placeholder, position |-> m]
       IN /\ obfuscated_funds' = DictSet(obfuscated_funds, rec)
          /\ uploads' = [uploads EXCEPT
                            ![u].funds = DictSet(@, rec),
                            ![u].obfuscated_text = SubFirst(@, rec.original, rec.placeholder),
                            ![u].pc = "113"]
    /\ UNCHANGED <<mask_vars, registry_vars, obfuscation_counter, obfuscation_file,
                   writer, offline_vars>>

\* line 113, self.obfuscation_counter += 1: the field is read ...
Obf113Load(u) ==
    /\ uploads[u].pc = "113"
    /\ uploads' = [uploads EXCEPT ![u].loaded = obfuscation_counter, ![u].pc = "113store"]
    /\ UNCHANGED <<mask_vars, fund_vars, writer, offline_vars>>

\* ... and the sum is written back; the loop goes to its next match, and
\* after the last one the request returns.
Obf113Store(u) ==
    /\ uploads[u].pc = "113store"
    /\ obfuscation_counter' = uploads[u].loaded + 1
    /\ uploads' = [uploads EXCEPT ![u].fund_matches = Tail(@),
                                  ![u].pc = IF Tail(uploads[u].fund_matches) = <<>>
                                            THEN "done" ELSE "88"]
    /\ UNCHANGED <<mask_vars, registry_vars, obfuscated_funds, obfuscation_file,
                   writer, offline_vars>>

\* One step of the /upload thread u.
UploadStep(u) ==
    \/ Mask35(u) \/ Mask42(u) \/ Mask45(u) \/ Mask46(u) \/ Mask59Load(u)
    \/ Mask59Store(u) \/ Mask61(u) \/ Obf83(u) \/ Obf88(u) \/ Obf91(u)
    \/ Obf92(u) \/ Obf113Load(u) \/ Obf113Store(u)

\* ---------------------------------- the web service: /api/fund_names
\* manage_fund_names calls add_fund_name (POST) or remove_fund_name (DELETE)
\* on the shared obfuscator.  One action is one step of the thread.

\* POST /api/fund_names with fund_name
StartAdd(name) ==
    /\ writer.pc = "idle"
    /\ writer' = [IdleWriter EXCEPT !.pc = "46", !.fund_name = name]
    /\ UNCHANGED <<mask_vars, fund_vars, uploads, offline_vars>>

\* DELETE /api/fund_names with fund_name
StartRemove(name) ==
    /\ writer.pc = "idle"
    /\ writer' = [IdleWriter EXCEPT !.pc = "58", !.fund_name = name]
    /\ UNCHANGED <<mask_vars, fund_vars, uploads, offline_vars>>

\* add_fund_name, line 46: if fund_name not in self.master_fund_names
Add46 ==
    /\ writer.pc = "46"
    /\ writer' = [writer EXCEPT !.pc = IF writer.fund_name \in Range(master_fund_names)
                                       THEN "done" ELSE "47"]
    /\ UNCHANGED <<mask_vars, fund_vars, uploads, offline_vars>>

\* line 47: self.master_fund_names.append(fund_name)
Add47 ==
    /\ writer.pc = "47"
    /\ master_fund_names' = Append(master_fund_names, writer.fund_name)
    /\ writer' = [writer EXCEPT !.pc = "49"]
    /\ UNCHANGED <<mask_vars, placeholder_mapping, fund_names_file, obfuscation_vars,
                   uploads, offline_vars>>

\* lines 48-49: the placeholder of the list's length goes into the dict.
Add49 ==
    /\ writer.pc = "49"
    /\ placeholder_mapping' =
          [n \in DOMAIN placeholder_mapping \cup {writer.fund_name} |->
              IF n = writer.fund_name THEN Placeholder(Len(master_fund_names))
              ELSE placeholder_mapping[n]]
    /\ writer' = [writer EXCEPT !.pc = "done"]
    /\ UNCHANGED <<mask_vars, master_fund_names, fund_names_file, obfuscation_vars,
                   uploads, offline_vars>>

\* remove_fund_name, line 58: if fund_name in self.master_fund_names
Remove58 ==
    /\ writer.pc = "58"
    /\ writer' = [writer EXCEPT !.pc = IF writer.fund_name \in Range(master_fund_names)
                                       THEN "59" ELSE "done"]
    /\ UNCHANGED <<mask_vars, fund_vars, uploads, offline_vars>>

\* line 59: self.master_fund_names.remove(fund_name)
Remove59 ==
    /\ writer.pc = "59"
    /\ master_fund_names' = ListRemove(master_fund_names, writer.fund_name)
    /\ writer' = [writer EXCEPT !.pc = "60"]
    /\ UNCHANGED <<mask_vars, placeholder_mapping, fund_names_file, obfuscation_vars,
                   uploads, offline_vars>>

\* line 60: del self.placeholder_mapping[fund_name]; then _generate_placeholders
\* starts its loop over the list.
Remove60 ==
    /\ writer.pc = "60"
    /\ placeholder_mapping' = DictDel(placeholder_mapping, writer.fund_name)
    /\ writer' = [writer EXCEPT !.pc = IF master_fund_names = <<>> THEN "done" ELSE "37",
                                !.i = 0]
    /\ UNCHANGED <<mask_vars, master_fund_names, fund_names_file, obfuscation_vars,
                   uploads, offline_vars>>

\* _generate_placeholders, lines 35-37: one iteration of the loop, for the
\* name at index i of the list.
Generate37 ==
    /\ writer.pc = "37"
    /\ LET fund_name == master_fund_names[writer.i + 1]
       IN placeholder_mapping' =
             [n \in DOMAIN placeholder_mapping \cup {fund_name} |->
                 IF n = fund_name THEN Placeholder(writer.i + 1)
                 ELSE placeholder_mapping[n]]
    /\ writer' = [writer EXCEPT !.i = @ + 1,
                                !.pc = IF writer.i + 1 = Len(master_fund_names)
                                       THEN "done" ELSE "37"]
    /\ UNCHANGED <<mask_vars, master_fund_names, fund_names_file, obfuscation_vars,
                   uploads, offline_vars>>

\* One step of the /api/fund_names thread.
WriterStep ==
    \/ Add46 \/ Add47 \/ Add49 \/ Remove58 \/ Remove59 \/ Remove60 \/ Generate37

\* --------------------------------------------------------- specifications

\* One masking session: documents are masked and decrypted.
NextMask ==
    \/ \E t \in MaskTexts : MaskText(t) /\ UNCHANGED <<fund_vars, aux_vars>>
    \/ DecryptText /\ UNCHANGED <<fund_vars, aux_vars>>

SpecMask == Init /\ [][NextMask]_vars

\* The mapping store: sessions are saved, constructed anew and loaded.
NextStore ==
    \/ \E t \in StoreTexts : MaskText(t) /\ UNCHANGED <<fund_vars, aux_vars>>
    \/ DecryptText /\ UNCHANGED <<fund_vars, aux_vars>>
    \/ SaveMaskingInfo /\ UNCHANGED <<fund_vars, aux_vars>>
    \/ \E f \in FilesAt(masking_file) : LoadMaskingInfo(f) /\ UNCHANGED <<fund_vars, aux_vars>>
    \/ NewEngine /\ UNCHANGED <<fund_vars, aux_vars>>
    \/ SaveObfuscationInfo /\ UNCHANGED <<mask_vars, aux_vars>>
    \/ \E f \in FilesAt(obfuscation_file) : LoadObfuscationInfo(f) /\ UNCHANGED <<mask_vars, aux_vars>>

SpecStore == Init /\ [][NextStore]_vars

\* One obfuscator: documents are obfuscated and deobfuscated while the
\* registry is changed.
NextFund ==
    \/ \E t \in FundTexts : ObfuscateText(t) /\ UNCHANGED <<mask_vars, aux_vars>>
    \/ DeobfuscateText /\ UNCHANGED <<mask_vars, aux_vars>>
    \/ \E n \in AddedNames : AddFundName(n) /\ UNCHANGED <<mask_vars, aux_vars>>
    \/ \E n \in RemovedNames : RemoveFundName(n) /\ UNCHANGED <<mask_vars, aux_vars>>

SpecFund == Init /\ [][NextFund]_vars

\* The registry: names are added and removed, the list saved and loaded.
NextRegistry ==
    \/ \E n \in RegistryNames : AddFundName(n) /\ UNCHANGED <<mask_vars, aux_vars>>
    \/ \E n \in RegistryNames : RemoveFundName(n) /\ UNCHANGED <<mask_vars, aux_vars>>
    \/ SaveFundNames /\ UNCHANGED <<mask_vars, aux_vars>>
    \/ \E f \in FilesAt(fund_names_file) : LoadFundNames(f) /\ UNCHANGED <<mask_vars, aux_vars>>
    \/ \E f \in FilesAt(fund_names_file) : NewObfuscator(f) /\ UNCHANGED <<mask_vars, aux_vars>>

SpecRegistry == Init /\ [][NextRegistry]_vars

\* The pipeline: documents are processed and their results decrypted.
Next ==
    \/ \E t \in PipelineTexts : ProcessDocument(t) /\ UNCHANGED aux_vars
    \/ DecryptResults /\ UNCHANGED aux_vars

Spec == Init /\ [][Next]_vars

\* The web service while the registry is changed: one /upload request and
\* one /api/fund_names request, their steps interleaved in any order.
NextRace ==
    \/ \E t \in RaceTexts : StartUpload(1, t)
    \/ UploadStep(1)
    \/ \E n \in RaceAdded : StartAdd(n)
    \/ \E n \in RaceRemoved : StartRemove(n)
    \/ WriterStep

SpecRace == Init /\ [][NextRace]_vars

\* The web service under concurrent uploads: two /upload requests, their
\* steps interleaved in any order.
NextUploads ==
    \/ \E u \in Uploads : \E t \in UploadTexts : StartUpload(u, t)
    \/ \E u \in Uploads : UploadStep(u)

SpecUploads == Init /\ [][NextUploads]_vars

\* Obfuscation on its own: documents with registered names inside longer
\* words and on their own are obfuscated and deobfuscated.
NextWords ==
    \/ \E t \in WordTexts : ObfuscateText(t) /\ UNCHANGED <<mask_vars, aux_vars>>
    \/ DeobfuscateText /\ UNCHANGED <<mask_vars, aux_vars>>

SpecWords == Init /\ [][NextWords]_vars

\* Masking on its own: documents with adjacent, long and short numbers and
\* with placeholders in them are masked, and masked again.
NextSpans ==
    \/ \E t \in SpanTexts : MaskText(t) /\ UNCHANGED <<fund_vars, aux_vars>>
    \/ RemaskText /\ UNCHANGED <<fund_vars, aux_vars>>
    \/ DecryptText /\ UNCHANGED <<fund_vars, aux_vars>>

SpecSpans == Init /\ [][NextSpans]_vars

\* Sessions one after the other: documents are masked, engines constructed.
NextSessions ==
    \/ \E t \in SessionTexts : LoggedMask(t)
    \/ LoggedNewEngine

SpecSessions == Init /\ [][NextSessions]_vars

\* Reversal of what the external service answered: documents are masked or
\* obfuscated, the service drops placeholders, the answer is reversed.
NextDrop ==
    \/ \E t \in DropTexts :
          MaskText(t) /\ dropped' = {} /\ UNCHANGED <<fund_vars, web_vars, mask_log>>
    \/ \E t \in DropFundTexts :
          ObfuscateText(t) /\ dropped' = {} /\ UNCHANGED <<mask_vars, web_vars, mask_log>>
    \/ \E S \in SUBSET RecordedPlaceholders(doc) : ServiceDrops(S)
    \/ DecryptText /\ UNCHANGED <<fund_vars, aux_vars>>
    \/ DeobfuscateText /\ UNCHANGED <<mask_vars, aux_vars>>

SpecDrop == Init /\ [][NextDrop]_vars

\* A registry in which one name is the beginning of another: names are added
\* and removed in any order, documents obfuscated and deobfuscated.
NextPrefix ==
    \/ \E n \in PrefixNames : AddFundName(n) /\ UNCHANGED <<mask_vars, aux_vars>>
    \/ \E n \in PrefixNames : RemoveFundName(n) /\ UNCHANGED <<mask_vars, aux_vars>>
    \/ \E t \in PrefixTexts : ObfuscateText(t) /\ UNCHANGED <<mask_vars, aux_vars>>
    \/ DeobfuscateText /\ UNCHANGED <<mask_vars, aux_vars>>

SpecPrefix == Init /\ [][NextPrefix]_vars

\* obfuscator.add_fund_name(name) for one more name.
AddNextFundName ==
    /\ Len(master_fund_names) < MaxRegistry
    /\ \E name \in {ExtraFund(Len(master_fund_names) + 1)} : AddFundName(name)

\* A growing registry: names are added one at a time while documents are masked.
NextGrow ==
    \/ AddNextFundName /\ UNCHANGED <<mask_vars, aux_vars>>
    \/ \E t \in GrowTexts : MaskText(t) /\ UNCHANGED <<fund_vars, aux_vars>>

SpecGrow == InitGrown /\ [][NextGrow]_vars

\* Reversal of any text: documents are obfuscated, the client posts a text
\* with the mapping it was given, the text is deobfuscated.
NextOrder ==
    \/ \E t \in OrderTexts : ObfuscateText(t) /\ UNCHANGED <<mask_vars, aux_vars>>
    \/ \E x \in PostedTexts : PostText(x)
    \/ DeobfuscateText /\ UNCHANGED <<mask_vars, aux_vars>>

SpecOrder == Init /\ [][NextOrder]_vars

\* Reversal of any text, numbers: documents are masked, the client posts a
\* text with the mapping it was given, the text is decrypted.
NextRepeat ==
    \/ \E t \in RepeatTexts : MaskText(t) /\ UNCHANGED <<fund_vars, aux_vars>>
    \/ \E x \in PostedMaskedTexts : PostText(x)
    \/ DecryptText /\ UNCHANGED <<fund_vars, aux_vars>>

SpecRepeat == Init /\ [][NextRepeat]_vars

\* Masking of dates: documents with dates and years are masked and decrypted.
NextDates ==
    \/ \E t \in DateTexts : MaskText(t) /\ UNCHANGED <<fund_vars, aux_vars>>
    \/ DecryptText /\ UNCHANGED <<fund_vars, aux_vars>>

SpecDates == Init /\ [][NextDates]_vars

\* A session given documents without numbers: documents are masked and decrypted.
NextNoOp ==
    \/ \E t \in NoOpTexts : MaskText(t) /\ UNCHANGED <<fund_vars, aux_vars>>
    \/ DecryptText /\ UNCHANGED <<fund_vars, aux_vars>>

SpecNoOp == Init /\ [][NextNoOp]_vars

\* obfuscator.remove_fund_name(name) for the first name of the list.
RemoveFirstFundName ==
    /\ master_fund_names # <<>>
    /\ \E name \in {master_fund_names[1]} : RemoveFundName(name)

\* A registry that is emptied: names are removed one at a time, and added,
\* while documents are obfuscated.
NextEmptying ==
    \/ RemoveFirstFundName /\ UNCHANGED <<mask_vars, aux_vars>>
    \/ \E n \in AddedNames : AddFundName(n) /\ UNCHANGED <<mask_vars, aux_vars>>
    \/ \E t \in EmptyingTexts : ObfuscateText(t) /\ UNCHANGED <<mask_vars, aux_vars>>
    \/ DeobfuscateText /\ UNCHANGED <<mask_vars, aux_vars>>

SpecEmptying == Init /\ [][NextEmptying]_vars

\* Reversal on any instance: a document is masked or obfuscated; the engine
\* then masks other documents, is saved, constructed anew or loaded, the
\* obfuscator is constructed anew; the document is reversed with the mapping
\* the caller kept.
NextInstances ==
    \/ \E t \in StoreTexts : MaskText(t) /\ UNCHANGED <<fund_vars, aux_vars>>
    \/ \E t \in StoreTexts : MaskAnother(t) /\ UNCHANGED <<fund_vars, aux_vars>>
    \/ SaveMaskingInfo /\ UNCHANGED <<fund_vars, aux_vars>>
    \/ \E f \in {masking_file} : LoadMaskingInfo(f) /\ UNCHANGED <<fund_vars, aux_vars>>
    \/ NewEngine /\ UNCHANGED <<fund_vars, aux_vars>>
    \/ DecryptText /\ UNCHANGED <<fund_vars, aux_vars>>
    \/ \E t \in InstanceFundTexts : ObfuscateText(t) /\ UNCHANGED <<mask_vars, aux_vars>>
    \/ \E f \in {NoFile("missing")} : NewObfuscator(f) /\ UNCHANGED <<mask_vars, aux_vars>>
    \/ DeobfuscateText /\ UNCHANGED <<mask_vars, aux_vars>>

SpecInstances == Init /\ [][NextInstances]_vars

\* Sessions of one thread: documents are masked and obfuscated, the mappings
\* saved and loaded, engines constructed.
NextCounters ==
    \/ \E t \in StoreTexts : MaskText(t) /\ UNCHANGED <<fund_vars, aux_vars>>
    \/ SaveMaskingInfo /\ UNCHANGED <<fund_vars, aux_vars>>
    \/ \E f \in FilesAt(masking_file) : LoadMaskingInfo(f) /\ UNCHANGED <<fund_vars, aux_vars>>
    \/ NewEngine /\ UNCHANGED <<fund_vars, aux_vars>>
    \/ \E t \in CountedFundTexts : ObfuscateText(t) /\ UNCHANGED <<mask_vars, aux_vars>>

SpecCounters == Init /\ [][NextCounters]_vars

\* Obfuscation of repeated names: documents in which registered names occur
\* once or twice are obfuscated while names are added and removed.
NextStable ==
    \/ \E t \in DropFundTexts : ObfuscateText(t) /\ UNCHANGED <<mask_vars, aux_vars>>
    \/ DeobfuscateText /\ UNCHANGED <<mask_vars, aux_vars>>
    \/ \E n \in AddedNames : AddFundName(n) /\ UNCHANGED <<mask_vars, aux_vars>>
    \/ \E n \in RemovedNames : RemoveFundName(n) /\ UNCHANGED <<mask_vars, aux_vars>>

SpecStable == Init /\ [][NextStable]_vars

\* ------------------------------------------------------------- properties

\* int(s) for a text of digits.
RECURSIVE ParseDecimal(_)
ParseDecimal(s) ==
    IF s = <<>> THEN 0
    ELSE 10 * ParseDecimal(SubSeq(s, 1, Len(s) - 1))
         + (CHOOSE k \in 0..9 : DigitChars[k + 1] = s[Len(s)])

\* The sequence number in an identifier MASK_<digits>.
IdNumber(id) == ParseDecimal(SubSeq(id, 6, Len(id)))

BadFiles == {"missing", "invalid"}

\* C1: numeric round trip.  Whenever a text has been masked and the result
\* decrypted with the mapping mask returned, the decrypted text is the input text.
NumericRoundTrip == doc.stage = "decrypted" => doc.text = doc.original

\* C2: entity round trip.  Whenever a text has been obfuscated and the result
\* deobfuscated with the mapping obfuscate returned, the deobfuscated text is
\* the input text.
EntityRoundTrip == doc.stage = "deobfuscated" => doc.text = doc.original

\* C3: composed round trip.  Whenever a text has been masked, then obfuscated,
\* then deobfuscated, then decrypted, the result is exactly the input text.
ComposedRoundTrip == doc.stage = "restored" => doc.text = doc.original

\* C4: case-insensitive entity matching.  obfuscate_fund_names returns for a
\* text holding registered names in any casing; every whole-word occurrence
\* has a record whose original is the matched text in its source casing and
\* whose placeholder is that of the registry entry it matches.
CaseInsensitiveMatching ==
    last_call.name = "obfuscate_fund_names" =>
        /\ raised = "none"
        /\ Len(doc.obfuscation_info.obfuscated_funds)
              = Len(FundMatches(doc.original, master_fund_names))
        /\ \A i \in DOMAIN doc.obfuscation_info.obfuscated_funds :
              LET r == doc.obfuscation_info.obfuscated_funds[i]
              IN /\ r.original = Slice(doc.original, r.position[1], r.position[2])
                 /\ \E k \in DOMAIN master_fund_names :
                       /\ LowerText(master_fund_names[k]) = LowerText(r.original)
                       /\ r.placeholder = placeholder_mapping[master_fund_names[k]]

\* C5: identifier uniqueness.  The records a session created by its mask calls
\* have strictly increasing identifiers in creation order, and no two of them
\* share an identifier or a placeholder.
IdentifierUniqueness ==
    \A i, j \in DOMAIN created :
        i < j => /\ IdNumber(created[i].id) < IdNumber(created[j].id)
                 /\ created[i].id # created[j].id
                 /\ created[i].masked # created[j].masked

\* Two records of one session with the same original value.
IdenticalValuesMasked ==
    \E i, j \in DOMAIN created :
        i < j /\ created[i].original = created[j].original

\* C6: registry mutation does not corrupt earlier mappings.  Whenever a text
\* was obfuscated, the registry then changed, and the result is deobfuscated
\* with the mapping returned earlier, the deobfuscated text is the input text.
MutationKeepsMappings ==
    (doc.stage = "deobfuscated" /\ doc.mutated) => doc.text = doc.original

\* C7: registry invariant.  The keys of placeholder_mapping are exactly the
\* names of master_fund_names, the name at index i (0-based) maps to "Fund"
\* followed by i+1 zero-padded to three digits, and no two names share a
\* placeholder.
RegistryInvariant ==
    /\ DOMAIN placeholder_mapping = Range(master_fund_names)
    /\ \A i \in DOMAIN master_fund_names :
          placeholder_mapping[master_fund_names[i]]
             = <<"F", "u", "n", "d">> \o ZeroPad(Decimal(i), 3)
    /\ master_fund_names # <<>> =>
          placeholder_mapping[master_fund_names[1]] = <<"F", "u", "n", "d", "0", "0", "1">>
    /\ \A m, n \in DOMAIN placeholder_mapping :
          m # n => placeholder_mapping[m] # placeholder_mapping[n]

\* A name was removed and the last default name has moved down by one.
RemovalShiftedLaterNames ==
    /\ last_call.name = "remove_fund_name"
    /\ HedgeFund \in DOMAIN placeholder_mapping
    /\ placeholder_mapping[HedgeFund] = <<"F", "u", "n", "d", "0", "1", "9">>

\* C8: identifier continuity across persistence.  Right after a successful
\* load_masking_info the counter equals the number of loaded records, and no
\* record created by a later mask call has an identifier that was loaded.
IdentifierContinuity ==
    /\ (last_call.name = "load_masking_info" /\ raised = "none") =>
          /\ mask_counter = Len(masked_values)
          /\ mask_counter = Cardinality(loaded_ids)
    /\ \A i \in DOMAIN created : created[i].id \notin loaded_ids

\* A session that loaded records has masked a number since.
MaskedAfterLoad == loaded_ids # {} /\ created # <<>>

\* C9: a load of a missing or corrupt mapping store raises nothing to the
\* caller and leaves the session with the empty mapping and the counter at 0.
LoadFallsBackToEmpty ==
    /\ (last_call.name = "load_masking_info" /\ last_call.file \in BadFiles) =>
          raised = "none" /\ masked_values = <<>> /\ mask_counter = 0
    /\ (last_call.name = "load_obfuscation_info" /\ last_call.file \in BadFiles) =>
          raised = "none" /\ obfuscated_funds = <<>> /\ obfuscation_counter = 0

RegenerationAtomic ==
    \A u \in Uploads :
        /\ uploads[u].error = "none"
        /\ \A i, j \in DOMAIN uploads[u].funds :
              uploads[u].funds[i].original # uploads[u].funds[j].original
                 => uploads[u].funds[i].placeholder # uploads[u].funds[j].placeholder

\* C12: each concurrently processed document has its own masking session.
\* Across two interleaved /upload requests no two records get the same
\* identifier or placeholder, every record a request created is still in the
\* session mapping as it was created, and once both requests have returned
\* the counter has advanced by the number of records created.
SeparateSessions ==
    /\ \A u, v \in Uploads : \A i \in DOMAIN uploads[u].replacements :
          \A j \in DOMAIN uploads[v].replacements :
             (u # v \/ i # j) =>
                /\ uploads[u].replacements[i].id # uploads[v].replacements[j].id
                /\ uploads[u].replacements[i].masked # uploads[v].replacements[j].masked
    /\ \A u \in Uploads : \A i \in DOMAIN uploads[u].replacements :
          \E k \in DOMAIN masked_values : masked_values[k] = uploads[u].replacements[i]
    /\ (\A u \in Uploads : uploads[u].pc = "done") =>
          /\ mask_counter = Len(uploads[1].replacements) + Len(uploads[2].replacements)
          /\ Len(masked_values) = mask_counter

\* The text t with the spans replaced by the images, span k by images[k];
\* the spans are disjoint and in increasing order.  Every character outside
\* the spans stays, in order.
RECURSIVE SubstituteFrom(_, _, _, _)
SubstituteFrom(t, spans, images, i) ==
    IF spans = <<>> THEN SliceFrom(t, i)
    ELSE Slice(t, i, Head(spans)[1]) \o Head(images)
         \o SubstituteFrom(t, Tail(spans), Tail(images), Head(spans)[2])

Substitute(t, spans, images) == SubstituteFrom(t, spans, images, 0)

Positions(recs) == [k \in DOMAIN recs |-> recs[k].position]

\* C13: reversal tolerates dropped placeholders.  When the external service
\* has dropped some or all of the recorded placeholders, decryption and
\* deobfuscation raise nothing and return the input text with the dropped
\* values gone and every other value restored: the placeholders still present
\* are replaced by their originals and nothing else changes.
ReversalToleratesDrops ==
    /\ (doc.stage = "decrypted" /\ dropped # {}) =>
          LET recs == doc.masking_info.masked_values
          IN /\ raised = "none"
             /\ doc.text = Substitute(doc.original, Positions(recs),
                               [k \in DOMAIN recs |->
                                   IF recs[k].masked \in dropped THEN <<>>
                                   ELSE recs[k].original])
    /\ (doc.stage = "deobfuscated" /\ dropped # {}) =>
          LET recs == doc.obfuscation_info.obfuscated_funds
          IN /\ raised = "none"
             /\ doc.text = Substitute(doc.original, Positions(recs),
                               [k \in DOMAIN recs |->
                                   IF recs[k].placeholder \in dropped THEN <<>>
                                   ELSE recs[k].original])

\* An answer that had lost one of two placeholders has been decrypted.
DecryptedAfterDrop ==
    /\ doc.stage = "decrypted"
    /\ dropped # {}
    /\ \E i \in DOMAIN doc.masking_info.masked_values :
          doc.masking_info.masked_values[i].masked \notin dropped

Originals(recs) == [k \in DOMAIN recs |-> recs[k].original]

Ids(recs) == {recs[k].id : k \in DOMAIN recs}

Returned == doc.masking_info.masked_values

MaskCalled == last_call.name = "mask_numerical_values"

\* C15: non-overlapping spans.  The spans one mask call records are not
\* empty, pairwise disjoint and increasing in identifier order; the two
\* amounts of "$1,000,000, $2,000,000" get a record each.
SpansDisjoint ==
    MaskCalled =>
        /\ \A i \in DOMAIN Returned :
              Returned[i].position[1] < Returned[i].position[2]
        /\ \A i, j \in DOMAIN Returned :
              i < j => /\ Returned[i].position[2] <= Returned[j].position[1]
                       /\ IdNumber(Returned[i].id) < IdNumber(Returned[j].id)
        /\ StartsAt(doc.original, TwoMillions, 0) =>
              /\ Len(Returned) >= 2
              /\ Returned[1].original = Million1
              /\ Returned[1].position = <<0, Len(Million1)>>
              /\ Returned[2].position[1] = Len(Million1) + 2
              /\ Slice(Returned[2].original, 0, Len(Million2)) = Million2

\* The two amounts, separated by a comma and a space, have been masked.
TwoAmountsMasked ==
    /\ MaskCalled
    /\ doc.original = TwoMillions
    /\ Len(Returned) = 2

\* The records the last obfuscate call returned.
ReturnedFunds == doc.obfuscation_info.obfuscated_funds

ObfuscateCalled == last_call.name = "obfuscate_fund_names"

\* The offsets at which a registered name, in any casing, occurs in t.
NameOccurrences(t) ==
    {span \in {<<i, i + Len(master_fund_names[k])>> :
                  i \in 0..Len(t), k \in DOMAIN master_fund_names} :
        \E k \in DOMAIN master_fund_names :
           /\ span[2] - span[1] = Len(master_fund_names[k])
           /\ StartsAt(LowerText(t), LowerText(master_fund_names[k]), span[1])}

\* A span of t that is a word of its own: no letter, digit or underscore
\* directly before it or directly after it.
WholeWord(t, span) ==
    /\ span[1] = 0 \/ ~IsWord(t[span[1]])
    /\ span[2] = Len(t) \/ ~IsWord(t[span[2] + 1])

\* C16: whole-word matching.  No occurrence of a registered name inside a
\* longer word gets a record, and a text whose registered names all occur
\* inside longer words is returned unchanged, with no record.
WholeWordMatching ==
    ObfuscateCalled =>
        /\ \A k \in DOMAIN ReturnedFunds : WholeWord(doc.original, ReturnedFunds[k].position)
        /\ (\A o \in NameOccurrences(doc.original) : ~WholeWord(doc.original, o)) =>
              /\ raised = "none"
              /\ ReturnedFunds = <<>>
              /\ doc.text = doc.original

\* A text with registered names, all of them inside longer words, was obfuscated.
EmbeddedNamesObfuscated ==
    /\ ObfuscateCalled
    /\ doc.stage = "obfuscated"
    /\ Cardinality(NameOccurrences(doc.original)) = 2
    /\ \A o \in NameOccurrences(doc.original) : ~WholeWord(doc.original, o)

\* C17: splice at the matched position.  The text obfuscate_fund_names
\* returns is the input with exactly the recorded spans replaced by their
\* placeholders, every other character unchanged.
SpliceAtMatch ==
    (ObfuscateCalled /\ raised = "none") =>
        doc.text = Substitute(doc.original, Positions(ReturnedFunds),
                              [k \in DOMAIN ReturnedFunds |-> ReturnedFunds[k].placeholder])

\* C18: the masked text is the simultaneous substitution.  The text a mask
\* call returns is the input with each recorded span replaced by that
\* record's placeholder, every character outside the spans unchanged and in
\* order, whether the placeholder is longer or shorter than the number.
MaskedTextIsSubstitution ==
    MaskCalled =>
        doc.text = Substitute(doc.original, Positions(Returned),
                              [k \in DOMAIN Returned |-> Returned[k].masked])

\* A number shorter than its placeholder and one longer than its placeholder
\* were masked in one text.
ShortAndLongMasked ==
    /\ MaskCalled
    /\ \E i, j \in DOMAIN Returned :
          /\ i < j
          /\ Len(Returned[i].original) < Len(Returned[i].masked)
          /\ Len(Returned[j].original) > Len(Returned[j].masked)

\* C19: record fidelity.  Every record of a mask call has a span inside the
\* input text, and the input text at that span is the record's original,
\* character for character.
RecordFidelity ==
    MaskCalled =>
        \A k \in DOMAIN Returned :
            /\ 0 <= Returned[k].position[1]
            /\ Returned[k].position[1] < Returned[k].position[2]
            /\ Returned[k].position[2] <= Len(doc.original)
            /\ Returned[k].original
                  = Slice(doc.original, Returned[k].position[1], Returned[k].position[2])

\* An amount with currency symbol, thousands separators and decimal point was recorded.
AmountRecordedVerbatim ==
    /\ MaskCalled
    /\ \E k \in DOMAIN Returned :
          /\ Returned[k].original = MillionCents
          /\ Returned[k].position[1] > 0

\* The spans of t at which a placeholder this session has issued occurs.
IssuedSpans(t) ==
    {span \in {<<i, i + Len(created[k].masked)>> : i \in 0..Len(t), k \in DOMAIN created} :
        \E k \in DOMAIN created :
           /\ span[2] - span[1] = Len(created[k].masked)
           /\ StartsAt(t, created[k].masked, span[1])}

\* C20: placeholders survive re-masking.  When a text that holds placeholders
\* the session has issued is masked, no recorded span covers a character of
\* such a placeholder.
PlaceholdersSurviveRemasking ==
    MaskCalled =>
        \A k \in DOMAIN Returned : \A p \in IssuedSpans(doc.original) :
            Returned[k].position[2] <= p[1] \/ p[2] <= Returned[k].position[1]

\* A text with a placeholder of an earlier call and a number was masked.
RemaskedBesideNumber ==
    /\ MaskCalled
    /\ Returned # <<>>
    /\ \E k \in DOMAIN created :
          /\ created[k].id \notin Ids(Returned)
          /\ \E i \in 0..Len(doc.original) : StartsAt(doc.original, created[k].masked, i)

\* C21: stable placeholder per registry entry.  Every record one
\* obfuscate_fund_names call returns carries the placeholder the registry
\* holds for the record's name, so two records of the call have the same
\* placeholder exactly when they have the same original; only the record
\* identifiers differ from match to match.
StablePlaceholders ==
    ObfuscateCalled =>
        /\ \A k \in DOMAIN ReturnedFunds :
              /\ ReturnedFunds[k].original \in DOMAIN placeholder_mapping
              /\ ReturnedFunds[k].placeholder = placeholder_mapping[ReturnedFunds[k].original]
        /\ \A i, j \in DOMAIN ReturnedFunds :
              /\ (ReturnedFunds[i].placeholder = ReturnedFunds[j].placeholder)
                    <=> (ReturnedFunds[i].original = ReturnedFunds[j].original)
              /\ i # j => ReturnedFunds[i].id # ReturnedFunds[j].id

\* A name whose placeholder a removal had changed occurred twice in one text.
SameNameTwiceAfterRemoval ==
    /\ ObfuscateCalled
    /\ master_fund_names # default_fund_names
    /\ \E i, j \in DOMAIN ReturnedFunds :
          /\ i < j
          /\ ReturnedFunds[i].original = ReturnedFunds[j].original
          /\ ReturnedFunds[i].placeholder # Placeholder(20)

\* The spans of t at which the text n stands as a word of its own.
WordSpans(t, n) ==
    {span \in {<<i, i + Len(n)>> : i \in 0..Len(t)} :
        StartsAt(t, n, span[1]) /\ WholeWord(t, span)}

\* The registered names that begin with another registered name.
LongerNames ==
    {l \in Range(master_fund_names) :
        \E s \in Range(master_fund_names) :
            Len(s) < Len(l) /\ SubSeq(l, 1, Len(s)) = s}

\* C22: longer names are not shadowed.  When a registered name begins with
\* another registered name, whatever their order in the registry and whether
\* the longer name goes on with a word character or with a space, every
\* occurrence of the longer name as a word of its own has a record with the
\* span and the text of the longer name and with the longer name's placeholder.
LongerNamesNotShadowed ==
    ObfuscateCalled =>
        \A l \in LongerNames : \A o \in WordSpans(doc.original, l) :
            /\ raised = "none"
            /\ \E k \in DOMAIN ReturnedFunds :
                  /\ ReturnedFunds[k].position = o
                  /\ ReturnedFunds[k].original = l
                  /\ ReturnedFunds[k].placeholder = placeholder_mapping[l]

\* The text a occurs in the text b.
Contains(a, b) == \E i \in 0..(Len(b) - Len(a)) : StartsAt(b, a, i)

\* C23: no placeholder is a substring of another.  Two distinct placeholders
\* of the session's mapping never contain one another, and neither do two
\* distinct placeholders of the registry, however far the counter has
\* advanced and however many names have been added.
PlaceholdersSubstringFree ==
    /\ \A i, j \in DOMAIN masked_values :
          masked_values[i].masked # masked_values[j].masked
             => ~Contains(masked_values[i].masked, masked_values[j].masked)
    /\ \A m, n \in DOMAIN placeholder_mapping :
          placeholder_mapping[m] # placeholder_mapping[n]
             => ~Contains(placeholder_mapping[m], placeholder_mapping[n])

\* The records recs in the order p, a permutation of their indices.
Permuted(recs, p) == [k \in DOMAIN recs |-> recs[p[k]]]

\* C24: entity reversal is order-insensitive.  For the mapping an obfuscate
\* call returned and any text, replacing each record's placeholder by its
\* original in any order of the records gives what deobfuscate_fund_names
\* gives.
ReversalOrderInsensitive ==
    doc.stage = "obfuscated" =>
        \A p \in Permutations(DOMAIN ReturnedFunds) :
            DeobfuscateEach(doc.text, Permuted(ReturnedFunds, p))
               = DeobfuscateFundNames(doc.text, doc.obfuscation_info)

\* C25: numeric reversal is idempotent and global.  Once a text has been
\* decrypted with the mapping a mask call returned, decrypting the result
\* again with that mapping changes nothing, and no placeholder of the mapping
\* is left in it: every occurrence was replaced by its record's original.
DecryptionIdempotent ==
    doc.stage = "decrypted" =>
        /\ DecryptNumericalValues(doc.text, doc.masking_info) = doc.text
        /\ \A k \in DOMAIN Returned : ~Contains(Returned[k].masked, doc.text)

\* The digit groups of t: the spans of digits with no digit before or after them.
DigitGroups(t) ==
    {<<i, i + DigitRun(t, i)>> :
        i \in {k \in 0..(Len(t) - 1) : IsDigit(t[k + 1]) /\ (k = 0 \/ ~IsDigit(t[k]))}}

\* C26: digit groups inside dates are masked as numbers.  Every digit group
\* that stands as a word of its own lies inside the span of a record, and in
\* 03/15/2020 the month, the day and the four-digit year get a record each,
\* the year's record spanning 2020.
DateGroupsMasked ==
    MaskCalled =>
        /\ \A g \in DigitGroups(doc.original) :
              WholeWord(doc.original, g) =>
                 \E k \in DOMAIN Returned :
                    Returned[k].position[1] <= g[1] /\ g[2] <= Returned[k].position[2]
        /\ StartsAt(doc.original, Date, 0) =>
              /\ Len(Returned) >= 3
              /\ Returned[1].position = <<0, 2>>
              /\ Returned[2].position = <<3, 5>>
              /\ Returned[3].position = <<6, 10>>
              /\ Returned[3].original = <<"2", "0", "2", "0">>

\* The pattern finds no number in the text.
NoNumber(t) == NumericMatches(t) = <<>>

\* C27: empty input is a no-op.  A mask call on the empty text, or on any
\* text without a number, returns the text as given with an empty mapping and
\* total 0 and leaves mask_counter and masked_values as they were; decrypting
\* what it returned gives the text back.
EmptyInputNoOp ==
    [][/\ (last_call'.name = "mask_numerical_values" /\ NoNumber(doc'.original)) =>
             /\ raised' = "none"
             /\ doc'.text = doc'.original
             /\ doc'.masking_info = [masked_values |-> <<>>, total_masked |-> 0]
             /\ mask_counter' = mask_counter
             /\ masked_values' = masked_values
       /\ (last_call'.name = "decrypt_numerical_values" /\ NoNumber(doc'.original)) =>
             /\ raised' = "none"
             /\ doc'.text = doc'.original
             /\ mask_counter' = mask_counter
             /\ masked_values' = masked_values]_vars

\* The empty text was masked and decrypted in a session that holds records.
EmptyTextDecrypted ==
    /\ doc.stage = "decrypted"
    /\ doc.original = <<>>
    /\ doc.text = <<>>
    /\ mask_counter > 0
    /\ masked_values # <<>>

\* C28: obfuscate_fund_names returns normally.  Whatever the text and
\* whatever names have been added to and removed from the registry, the
\* registry with no name left included, the call raises nothing and returns
\* a text and a mapping.
ObfuscationReturns ==
    ObfuscateCalled => raised = "none" /\ doc.stage = "obfuscated"

\* The engine's and the obfuscator's fields stay as they are in this step.
SessionUntouched ==
    /\ mask_counter' = mask_counter
    /\ masked_values' = masked_values
    /\ obfuscated_funds' = obfuscated_funds
    /\ obfuscation_counter' = obfuscation_counter
    /\ master_fund_names' = master_fund_names
    /\ placeholder_mapping' = placeholder_mapping

\* C29: reversal is stateless.  A decrypt_numerical_values or
\* deobfuscate_fund_names call leaves the engine's and the obfuscator's
\* fields and the mapping passed in as they were, and what it returns is
\* given by the text and the mapping passed in alone: the placeholders of
\* that mapping replaced by their originals, whatever instance is called.
ReversalStateless ==
    [][/\ last_call'.name = "decrypt_numerical_values" =>
             /\ SessionUntouched
             /\ doc'.masking_info = doc.masking_info
             /\ doc'.text = ReplaceEach(doc.text, Reverse(doc.masking_info.masked_values))
       /\ last_call'.name = "deobfuscate_fund_names" =>
             /\ SessionUntouched
             /\ doc'.obfuscation_info = doc.obfuscation_info
             /\ doc'.text = DeobfuscateEach(doc.text, doc.obfuscation_info.obfuscated_funds)]_vars

\* A document was decrypted by an engine that holds other records than the
\* document's: one constructed since, which has masked another document.
DecryptedByAnotherInstance ==
    /\ doc.stage = "decrypted"
    /\ Returned # <<>>
    /\ doc.text = doc.original
    /\ masked_values # <<>>
    /\ \A k \in DOMAIN Returned : \A i \in DOMAIN masked_values :
          masked_values[i] # Returned[k]

\* C30: the counter matches the mapping size.  In every state of a session
\* of one thread mask_counter is the number of records in masked_values and
\* obfuscation_counter the number of records in obfuscated_funds, and the
\* total_masked a mask call returns is the number of records the call added
\* to the session.
CounterMatchesMapping ==
    /\ [](/\ mask_counter = Len(masked_values)
          /\ obfuscation_counter = Len(obfuscated_funds))
    /\ [][last_call'.name = "mask_numerical_values" =>
             /\ doc'.masking_info.total_masked = Len(doc'.masking_info.masked_values)
             /\ doc'.masking_info.total_masked = Len(masked_values') - Len(masked_values)
             /\ doc'.masking_info.total_masked = mask_counter' - mask_counter]_vars

\* A session that loaded records has masked a document since, and the
\* obfuscator holds a record.
CountedAfterLoad ==
    /\ loaded_ids # {}
    /\ mask_counter > Cardinality(loaded_ids)
    /\ last_call.name = "mask_numerical_values"
    /\ doc.masking_info.total_masked > 0
    /\ obfuscated_funds # <<>>

====
